---- MODULE Spec2Model ----
(***************************************************************************)
(* Model of scripts/programmable-object-test.py: one run of main(), which  *)
(* creates a generation, long-polls the object until the version's task is *)
(* final (with a progress ticker running beside the loop), fetches the GLB *)
(* content and registers it with the debug endpoint.                       *)
(*                                                                         *)
(* The remote server is the environment: every HTTP exchange draws its raw *)
(* answer (status line and body) from a bounded set.  JSON bodies are JSON *)
(* objects, as the API's envelope is; a body that is not JSON is a text.   *)
(* Time is a saturating integer clock; an HTTP call and a sleep each take  *)
(* at least one tick.                                                      *)
(***************************************************************************)
EXTENDS Integers, Sequences, FiniteSets, TLC

\* ------------------------------------------------------------------ bounds
\* Largest overall_timeout_sec tried, in clock ticks.
MaxTimeout == 3
\* Longest single HTTP call or sleep, in clock ticks.
MaxDur == 2

\* The clock saturates here, above every deadline.
MaxClock == MaxTimeout + MaxDur + 1
\* Cap on the wait calls of one run (bites only when no deadline is set).
PollCap == MaxTimeout + 2

Min(a, b) == IF a < b THEN a ELSE b

\* overall_timeout_sec = None
NoTimeout == 0 - 1

\* ------------------------------------------------------------------ values
\* The version token make_version() gives this run, and the versions of
\* the tasks the server may list: this run's and an older one.
NewVersions == {"v2"}
Versions == NewVersions \cup {"v1"}
Ids == {"T1", "T2"}

\* One entry of ObjectState.tasks.  status "" is a task without a status,
\* error "" a task without (or with an empty) error.
Task(v, st, e) == [version |-> v, status |-> st, error |-> e]
Tasks ==
    { Task(v, st, "") : v \in NewVersions,
                        st \in {"processing", "succeeded", "failed", "queued", ""} }
    \cup { Task(v, "failed", "X") : v \in Versions }
    \cup { Task(v, st, "") : v \in Versions \ NewVersions, st \in {"processing", "succeeded"} }
\* The tasks a second list entry is drawn from.
LaterTasks ==
    { Task(v, st, "") : v \in NewVersions, st \in {"processing", "succeeded"} }
    \cup { Task(v, "succeeded", "") : v \in Versions \ NewVersions }
TaskLists ==
    {<<>>} \cup { <<t>> : t \in Tasks } \cup { <<t, u>> : t \in Tasks, u \in LaterTasks }

\* A response body.  kind "nonjson": text holds the raw text.  kind "object":
\* a JSON object with the envelope's fields (success a truthy/falsy flag,
\* error "" when missing or empty, data present or not, data.id, data.tasks).
Body(k, txt, ok, e, hd, ik, i, ts) ==
    [kind |-> k, text |-> txt, success |-> ok, error |-> e,
     hasData |-> hd, idKind |-> ik, id |-> i, tasks |-> ts]
NonJson(txt) == Body("nonjson", txt, FALSE, "", FALSE, "missing", "", <<>>)
Envelope(ok, e) == Body("object", "", ok, e, FALSE, "missing", "", <<>>)
WithId(ok, ik, i) == Body("object", "", ok, "", TRUE, ik, i, <<>>)
WithTasks(ok, e, ts) == Body("object", "", ok, e, TRUE, "missing", "", ts)
NoBody == NonJson("")

\* A raw HTTP exchange: http 0 is a transport failure (no response at all).
Raw(h, b, ct) == [http |-> h, body |-> b, ctype |-> ct]
Statuses == {200, 201, 404, 500}
TransportFailure == Raw(0, NoBody, "")

NonJsonBodies == { NonJson(t) : t \in {"", "oops"} }
FailureBodies == { Envelope(FALSE, e) : e \in {"", "E"} }

CreateBodies ==
    NonJsonBodies \cup FailureBodies \cup {Envelope(TRUE, "")}
    \cup {WithId(TRUE, "missing", ""), WithId(TRUE, "int", "")}
    \cup { WithId(TRUE, "str", i) : i \in Ids }
CreateRaws == {TransportFailure} \cup { Raw(h, b, "") : h \in Statuses, b \in CreateBodies }

\* Bodies of a wait answer with status 200, and the smaller choice tried
\* with every other status (where the code reads success and error only).
WaitBodies ==
    NonJsonBodies \cup FailureBodies \cup {Envelope(TRUE, "")}
    \cup { WithTasks(TRUE, "", ts) : ts \in TaskLists }
    \cup { WithTasks(FALSE, e, <<t>>) : e \in {"", "E"}, t \in LaterTasks }
OtherWaitBodies ==
    NonJsonBodies \cup FailureBodies \cup {Envelope(TRUE, "")}
    \cup { WithTasks(ok, "", <<t>>) : ok \in BOOLEAN, t \in LaterTasks }
WaitRaws ==
    {TransportFailure}
    \cup { Raw(200, b, "") : b \in WaitBodies }
    \cup { Raw(h, b, "") : h \in Statuses \ {200}, b \in OtherWaitBodies }

FetchRaws ==
    {TransportFailure}
    \cup { Raw(200, NonJson("glb"), ct) : ct \in {"", "model/gltf-binary"} }
    \cup { Raw(h, b, "") : h \in {404, 500},
                           b \in NonJsonBodies \cup FailureBodies \cup {Envelope(TRUE, "")} }

DebugBodies == NonJsonBodies \cup FailureBodies \cup {Envelope(TRUE, "")}
DebugRaws == {TransportFailure} \cup { Raw(h, b, "") : h \in Statuses, b \in DebugBodies }

\* ------------------------------------------------------------------ errors
\* An exception: its class and its message.  A message is a literal or
\* server-given text (fmt "text"), or a format applied to a body.
Text(s) == [fmt |-> "text", text |-> s, body |-> NoBody]
Fmt(f, s, b) == [fmt |-> f, text |-> s, body |-> b]
Error(cls, msg) == [cls |-> cls, msg |-> msg]
NoErr == Error("", Text(""))

\* Python's `x or y` on strings.
Or(x, y) == IF x # "" THEN x ELSE y

\* ------------------------------------------------------------------ http
\* What a call gives back: a raised exception, or (status, resp) with, for
\* the content fetch, the Content-Type header.
Returned(status, resp, ct) ==
    [raised |-> FALSE, err |-> NoErr, status |-> status, resp |-> resp, ctype |-> ct]
Raised(e) ==
    [raised |-> TRUE, err |-> e, status |-> 0, resp |-> NoBody, ctype |-> ""]

\* urlopen raises HTTPError for a status outside 2xx.
IsHTTPError(h) == ~(h \in 200..299)

\* Mutant: a body that is not JSON is made a failure envelope.
_read_json_bytes_envelope(raw) ==
    IF raw.kind = "object"
    THEN Returned(0, raw, "")
    ELSE Returned(0, Envelope(FALSE, raw.text), "")

_read_json_bytes(raw) ==
    IF raw.kind = "object"
    THEN Returned(0, raw, "")
    ELSE Raised(Error("RuntimeError", Fmt("Non-JSON response", raw.text, NoBody)))

_sync_http_json(r) ==
    IF r.http = 0 THEN Raised(Error("URLError", Text("")))
    ELSE IF ~IsHTTPError(r.http) THEN
        LET j == _read_json_bytes(r.body)
        IN  IF j.raised THEN j ELSE Returned(r.http, j.resp, "")
    ELSE IF r.body.kind = "object" THEN Returned(r.http, r.body, "")
    ELSE Returned(r.http, Envelope(FALSE, r.body.text), "")

\* body.decode("utf-8", "replace"): the text of a body as it was sent.
RawText(body) ==
    IF body.kind = "nonjson" THEN Text(body.text) ELSE Fmt("raw", "", body)

\* The exception raised inside the try block of the HTTPError handler:
\* json.loads fails, or the RuntimeError with the server's message is raised.
ErrorBodyTry(body) ==
    IF body.kind = "object"
    THEN Error("RuntimeError",
               IF body.error # "" THEN Text(body.error) ELSE Fmt("str", "", body))
    ELSE Error("JSONDecodeError", Text(""))

\* `except Exception` catches every exception class raised above.
IsException(e) == e.cls \in {"RuntimeError", "JSONDecodeError"}

_sync_http_bytes_with_content_type(r) ==
    IF r.http = 0 THEN Raised(Error("URLError", Text("")))
    ELSE IF ~IsHTTPError(r.http) THEN Returned(r.http, r.body, r.ctype)
    ELSE LET e == ErrorBodyTry(r.body)
         IN  IF IsException(e)
             THEN Raised(Error("RuntimeError", RawText(r.body)))
             ELSE Raised(e)

\* ------------------------------------------------------------------ domain
PyNone == "None"
NoTask == [found |-> FALSE, t |-> Task("", "", "")]

\* Mutant: the first task listed is taken, whatever its version.
get_version_task_any(state, version) ==
    IF state.tasks = <<>> THEN NoTask
    ELSE [found |-> TRUE, t |-> state.tasks[1]]

get_version_task(state, version) ==
    LET hits == { i \in DOMAIN state.tasks : state.tasks[i].version = version }
    IN  IF hits = {} THEN NoTask
        ELSE [found |-> TRUE,
              t |-> state.tasks[CHOOSE i \in hits : \A j \in hits : i <= j]]

\* Mutant: "succeeded" is not among the statuses recognised.
get_version_status_unrecognised(state, version) ==
    LET t == get_version_task(state, version)
    IN  IF ~t.found THEN PyNone
        ELSE IF t.t.status \in {"processing", "failed"} THEN t.t.status
        ELSE PyNone

\* Mutant: the task's status is passed on unfiltered.
get_version_status_raw(state, version) ==
    LET t == get_version_task(state, version)
    IN  IF ~t.found THEN PyNone ELSE t.t.status

get_version_status(state, version) ==
    LET t == get_version_task(state, version)
    IN  IF ~t.found THEN PyNone
        ELSE IF t.t.status \in {"processing", "succeeded", "failed"} THEN t.t.status
        ELSE PyNone

\* Mutant: the task's own error message is dropped.
raise_if_failed_generic(state, version) ==
    LET t == get_version_task(state, version)
    IN  IF t.found /\ t.t.status = "failed"
        THEN Error("RuntimeError", Text("Generation failed"))
        ELSE NoErr

\* The exception raise_if_failed raises, NoErr when it returns.
raise_if_failed(state, version) ==
    LET t == get_version_task(state, version)
    IN  IF t.found /\ t.t.status = "failed"
        THEN Error("RuntimeError", Text(Or(t.t.error, "Generation failed")))
        ELSE NoErr

\* Mutant: the two fields are filled the wrong way round.
ObjectMetadata_swapped(i, v) == [id |-> v, version |-> i]

\* ObjectMetadata (name and description are fixed texts of main, left out).
ObjectMetadata(i, v) == [id |-> i, version |-> v]
NoObj == ObjectMetadata("", "")

\* The object state a wait response carries (resp["data"]).
State(ts) == [tasks |-> ts]

\* ------------------------------------------------------------------ steps
\* create_generation from the answer of its http_json call on: the
\* exception it raises, or the ObjectMetadata it returns.
create_generation(ret, version) ==
    IF ret.raised THEN [raised |-> TRUE, err |-> ret.err, obj |-> NoObj]
    ELSE IF ret.status # 200 \/ ~ret.resp.success THEN
        [raised |-> TRUE, obj |-> NoObj,
         err |-> Error("RuntimeError",
                       IF ret.resp.error # "" THEN Text(ret.resp.error)
                       ELSE Fmt("Failed to create generation", "", ret.resp))]
    ELSE IF ~ret.resp.hasData THEN
        [raised |-> TRUE, obj |-> NoObj, err |-> Error("KeyError", Text("data"))]
    ELSE IF ret.resp.idKind = "missing" THEN
        [raised |-> TRUE, obj |-> NoObj, err |-> Error("KeyError", Text("id"))]
    ELSE IF ret.resp.idKind # "str" THEN
        [raised |-> TRUE, obj |-> NoObj, err |-> Error("TypeError", Text("id is not string"))]
    ELSE [raised |-> FALSE, err |-> NoErr, obj |-> ObjectMetadata(ret.resp.id, version)]

\* What one loop iteration of wait_until_version_final does with the answer
\* of its http_json call: raise, sleep and retry, continue, or return.
\* Mutant: the task-not-found branch continues at once, without the sleep.
Step_no_sleep(act, e, st) ==
    [act |-> IF act = "sleep" THEN "continue" ELSE act, err |-> e, state |-> st]

Step(act, e, st) == [act |-> act, err |-> e, state |-> st]

\* Mutant: no status is taken for "not found".
is_not_found_never(status) == FALSE

\* The first check on a wait answer: status == 404.
is_not_found(status) == status = 404

\* Mutant: only the status is checked, not the envelope's success flag.
is_request_failure_status_only(status, resp) == status # 200

\* The second check on a wait answer: status != 200 or not resp.get("success").
is_request_failure(status, resp) == status # 200 \/ ~resp.success

wait_iteration(ret, version) ==
    IF ret.raised THEN Step("raise", ret.err, State(<<>>))
    ELSE IF is_not_found(ret.status) THEN
        Step("raise", Error("RuntimeError", Text(Or(ret.resp.error, "Object not found"))),
             State(<<>>))
    ELSE IF is_request_failure(ret.status, ret.resp) THEN
        Step("raise",
             Error("RuntimeError",
                   IF ret.resp.error # "" THEN Text(ret.resp.error)
                   ELSE Fmt("Wait failed", "", ret.resp)),
             State(<<>>))
    ELSE IF ~ret.resp.hasData THEN
        Step("raise", Error("KeyError", Text("data")), State(<<>>))
    ELSE
        LET state == State(ret.resp.tasks)
            st == get_version_status(state, version)
        IN  IF st = PyNone THEN Step("sleep", NoErr, State(<<>>))
            ELSE IF st = "processing" THEN Step("continue", NoErr, State(<<>>))
            ELSE IF st = "failed" THEN
                LET e == raise_if_failed(state, version)
                IN  IF e # NoErr THEN Step("raise", e, State(<<>>))
                    ELSE Step("raise", Error("RuntimeError", Text("Generation failed")),
                              State(<<>>))
            ELSE Step("return", NoErr, state)

\* Mutant: the deadline is never found to have passed.
deadline_never_passed(now, dl) == dl # NoTimeout /\ now > dl + MaxClock

\* Mutant: the deadline counts as passed one tick late.
deadline_passed_late(now, dl) == dl # NoTimeout /\ now > dl + 1

\* The deadline check at the top of each iteration.
deadline_passed(now, dl) == dl # NoTimeout /\ now > dl

\* Mutant: the deadline is reported with the error class of the other paths.
timeout_error_runtime(ot) ==
    Error("RuntimeError", Fmt("Overall timeout reached", ToString(ot), NoBody))

\* The exception the deadline check raises.
timeout_error(ot) ==
    Error("TimeoutError", Fmt("Overall timeout reached", ToString(ot), NoBody))

\* debug_add_object_to_rooms from the answer of its http_json call on.
debug_add_object_to_rooms(ret) ==
    IF ret.raised THEN ret.err
    ELSE IF ret.status # 200 \/ ~ret.resp.success THEN
        Error("RuntimeError",
              IF ret.resp.error # "" THEN Text(ret.resp.error)
              ELSE Fmt("debug add failed", "", ret.resp))
    ELSE NoErr

\* ------------------------------------------------------------------ state
VARIABLES
    pc,          \* where main() is: start, create_http, created, wait, waited,
                 \* fetch_http, fetched, register_http, done, failed
    wpc,         \* where wait_until_version_final is: idle, http, sleep,
                 \* await_tick (the finally block awaits the ticker), exited
    reqs,        \* the requests issued so far, in order
    inflight,    \* requests issued and not yet answered
    lastResp,    \* the raw answer to the latest request
    err,         \* the exception raised (pending in the finally block, or final)
    cversion,    \* create_generation's version token
    obj,         \* the ObjectMetadata create_generation returned
    wargs,       \* wait_until_version_final's arguments
    clock,       \* time.perf_counter()
    started_at,
    deadline,
    attempt,
    wresult,     \* what wait_until_version_final is leaving with
    tick,        \* the ticker task: none, pending (created, not yet run),
                 \* sleeping (in asyncio.sleep), done
    tick_cancel, \* tick_task.cancel() was called
    glb,         \* what get_object_content_glb returned
    nresp,       \* history: wait responses received
    seen,        \* history: what the wait responses before the latest showed
    late_print   \* history: the ticker printed after the wait was left

vars == <<pc, wpc, reqs, inflight, lastResp, err, cversion, obj, wargs, clock,
          started_at, deadline, attempt, wresult, tick, tick_cancel, glb,
          nresp, seen, late_print>>

Req(ep, i, v) == [ep |-> ep, id |-> i, version |-> v]
WaitArgs(i, v, ot) == [task_id |-> i, version |-> v, overall_timeout_sec |-> ot]
Result(k, st) == [kind |-> k, state |-> st]
NoResult == Result("none", State(<<>>))
Content(b, ct) == [bytes |-> b, content_type |-> ct]
NoContent == Content("", "")

Timeouts == {NoTimeout} \cup (0 .. MaxTimeout)

WaitCalls == Cardinality({ i \in DOMAIN reqs : reqs[i].ep = "wait" })

\* What a raw wait response shows of a version's task (history only).
ListsTask(r, v) ==
    /\ r.http = 200 /\ r.body.kind = "object" /\ r.body.success /\ r.body.hasData
    /\ \E i \in DOMAIN r.body.tasks : r.body.tasks[i].version = v
Shows(r, v, st) ==
    /\ ListsTask(r, v)
    /\ \A i \in DOMAIN r.body.tasks :
          r.body.tasks[i].version = v => r.body.tasks[i].status = st
Absent(r, v) ==
    /\ r.http = 200 /\ r.body.kind = "object" /\ r.body.success /\ r.body.hasData
    /\ \A i \in DOMAIN r.body.tasks : r.body.tasks[i].version # v
Shown(r, v) ==
    IF Shows(r, v, "processing") THEN "processing"
    ELSE IF Absent(r, v) THEN "absent" ELSE "other"
Merge(a, k) == IF a = "none" \/ a = k THEN k ELSE "mixed"

Init ==
    /\ pc = "start" /\ wpc = "idle"
    /\ reqs = <<>> /\ inflight = 0
    /\ lastResp = TransportFailure
    /\ err = NoErr
    /\ cversion = "" /\ obj = NoObj
    /\ wargs = WaitArgs("", "", NoTimeout)
    /\ clock = 0 /\ started_at = 0 /\ deadline = NoTimeout /\ attempt = 0
    /\ wresult = NoResult
    /\ tick = "none" /\ tick_cancel = FALSE
    /\ glb = NoContent
    /\ nresp = 0 /\ seen = "none" /\ late_print = FALSE

\* main -> create_generation: make_version() and the POST, up to its await.
CreateSend ==
    /\ pc = "start"
    /\ \E v \in NewVersions :
         /\ cversion' = v
         /\ reqs' = Append(reqs, Req("create", "", v))
    /\ inflight' = inflight + 1
    /\ pc' = "create_http"
    /\ UNCHANGED <<wpc, lastResp, err, obj, wargs, clock, started_at, deadline,
                   attempt, wresult, tick, tick_cancel, glb, nresp, seen, late_print>>

\* create_generation resumes with the answer to the POST.
CreateRecv ==
    /\ pc = "create_http"
    /\ \E r \in CreateRaws :
         LET out == create_generation(_sync_http_json(r), cversion)
         IN  /\ lastResp' = r
             /\ err' = out.err
             /\ obj' = out.obj
             /\ pc' = IF out.raised THEN "failed" ELSE "created"
    /\ inflight' = inflight - 1
    /\ UNCHANGED <<wpc, reqs, cversion, wargs, clock, started_at, deadline,
                   attempt, wresult, tick, tick_cancel, glb, nresp, seen, late_print>>

\* Mutant: the finally block awaits the ticker without cancelling it.
EnterFinally_no_cancel(res, e) ==
    /\ wresult' = res
    /\ err' = e
    /\ tick_cancel' = tick_cancel
    /\ wpc' = "await_tick"

\* The finally block up to `await tick_task`, entered with a pending return
\* or exception: tick_task.cancel(), then main's task waits for the ticker.
EnterFinally(res, e) ==
    /\ wresult' = res
    /\ err' = e
    /\ tick_cancel' = TRUE
    /\ wpc' = "await_tick"

\* Mutant: the wait request is sent twice, the first one not awaited.
LoopTop_twice(now, a, dl, n, fl) ==
    /\ clock' = now
    /\ attempt' = n + 1
    /\ IF deadline_passed(now, dl)
       THEN /\ EnterFinally(Result("raised", State(<<>>)),
                            timeout_error(a.overall_timeout_sec))
            /\ inflight' = fl
            /\ UNCHANGED reqs
       ELSE /\ WaitCalls < PollCap
            /\ reqs' = reqs \o <<Req("wait", a.task_id, a.version),
                                 Req("wait", a.task_id, a.version)>>
            /\ inflight' = fl + 2
            /\ wpc' = "http"
            /\ UNCHANGED <<wresult, err, tick_cancel>>

\* The top of a loop iteration at time now, up to the await of the GET:
\* the deadline check, then the wait request.
LoopTop(now, a, dl, n, fl) ==
    /\ clock' = now
    /\ attempt' = n + 1
    /\ IF deadline_passed(now, dl)
       THEN /\ EnterFinally(Result("raised", State(<<>>)),
                            timeout_error(a.overall_timeout_sec))
            /\ inflight' = fl
            /\ UNCHANGED reqs
       ELSE /\ WaitCalls < PollCap
            /\ reqs' = Append(reqs, Req("wait", a.task_id, a.version))
            /\ inflight' = fl + 1
            /\ wpc' = "http"
            /\ UNCHANGED <<wresult, err, tick_cancel>>

\* main calls wait_until_version_final: the ticker task is created and the
\* first iteration runs up to its await.
WaitEnter ==
    /\ pc = "created"
    /\ pc' = "wait"
    /\ tick' = "pending"
    /\ started_at' = clock
    /\ \E ot \in Timeouts, d \in 0 .. 1 :
         LET a == WaitArgs(obj.id, obj.version, ot)
             dl == IF ot = NoTimeout THEN NoTimeout ELSE clock + ot
         IN  /\ wargs' = a
             /\ deadline' = dl
             /\ LoopTop(Min(clock + d, MaxClock), a, dl, 0, inflight)
    /\ UNCHANGED <<lastResp, cversion, obj, glb, nresp, seen, late_print>>

\* The loop resumes with the answer to a wait request and inspects it.
WaitRecv ==
    /\ pc = "wait" /\ wpc = "http"
    /\ nresp' = nresp + 1
    /\ seen' = IF nresp = 0 THEN "none" ELSE Merge(seen, Shown(lastResp, wargs.version))
    /\ \E r \in WaitRaws, d \in 1 .. MaxDur :
         LET now == Min(clock + d, MaxClock)
             out == wait_iteration(_sync_http_json(r), wargs.version)
         IN  /\ lastResp' = r
             /\ CASE out.act = "raise" ->
                      /\ EnterFinally(Result("raised", State(<<>>)), out.err)
                      /\ clock' = now /\ inflight' = inflight - 1
                      /\ UNCHANGED <<reqs, attempt>>
                  [] out.act = "return" ->
                      /\ EnterFinally(Result("returned", out.state), NoErr)
                      /\ clock' = now /\ inflight' = inflight - 1
                      /\ UNCHANGED <<reqs, attempt>>
                  [] out.act = "sleep" ->
                      /\ wpc' = "sleep"
                      /\ clock' = now /\ inflight' = inflight - 1
                      /\ UNCHANGED <<reqs, attempt, wresult, err, tick_cancel>>
                  [] out.act = "continue" ->
                      LoopTop(now, wargs, deadline, attempt, inflight - 1)
    /\ UNCHANGED <<pc, cversion, obj, wargs, started_at, deadline, tick, glb, late_print>>

\* asyncio.sleep(0.1) is over: `continue`, the next iteration.
SleepDone ==
    /\ pc = "wait" /\ wpc = "sleep"
    /\ \E d \in 1 .. MaxDur :
         LoopTop(Min(clock + d, MaxClock), wargs, deadline, attempt, inflight)
    /\ UNCHANGED <<pc, lastResp, cversion, obj, wargs, started_at, deadline, tick,
                   glb, nresp, seen, late_print>>

\* main's task is suspended at an await: only then can the ticker run.
MainSuspended ==
    \/ pc = "wait" /\ wpc \in {"http", "sleep", "await_tick"}
    \/ pc \in {"fetch_http", "register_http"}

\* _ticker runs one round: print the elapsed time, sleep 0.2 s.
TickerPrint ==
    /\ MainSuspended
    /\ tick \in {"pending", "sleeping"}
    /\ ~tick_cancel
    /\ tick' = "sleeping"
    /\ late_print' = (late_print \/ wpc = "exited")
    /\ UNCHANGED <<pc, wpc, reqs, inflight, lastResp, err, cversion, obj, wargs,
                   clock, started_at, deadline, attempt, wresult, tick_cancel, glb,
                   nresp, seen>>

\* The cancelled ticker gets CancelledError at its await (or before its
\* first step) and ends.
TickerCancelled ==
    /\ MainSuspended
    /\ tick \in {"pending", "sleeping"}
    /\ tick_cancel
    /\ tick' = "done"
    /\ UNCHANGED <<pc, wpc, reqs, inflight, lastResp, err, cversion, obj, wargs,
                   clock, started_at, deadline, attempt, wresult, tick_cancel, glb,
                   nresp, seen, late_print>>

\* Mutant: main goes on to the content fetch whatever the wait left with.
WaitExit_swallow ==
    /\ pc = "wait" /\ wpc = "await_tick"
    /\ tick = "done"
    /\ wpc' = "exited"
    /\ pc' = "waited"
    /\ UNCHANGED <<reqs, inflight, lastResp, err, cversion, obj, wargs, clock,
                   started_at, deadline, attempt, wresult, tick, tick_cancel, glb,
                   nresp, seen, late_print>>

\* Mutant: the finally block cancels the ticker but does not await it.
WaitExit_no_await ==
    /\ pc = "wait" /\ wpc = "await_tick"
    /\ wpc' = "exited"
    /\ pc' = IF wresult.kind = "returned" THEN "waited" ELSE "failed"
    /\ UNCHANGED <<reqs, inflight, lastResp, err, cversion, obj, wargs, clock,
                   started_at, deadline, attempt, wresult, tick, tick_cancel, glb,
                   nresp, seen, late_print>>

\* `await tick_task` is over: the finally block ends and the pending return
\* or exception leaves wait_until_version_final; an exception ends main.
WaitExit ==
    /\ pc = "wait" /\ wpc = "await_tick"
    /\ tick = "done"
    /\ wpc' = "exited"
    /\ pc' = IF wresult.kind = "returned" THEN "waited" ELSE "failed"
    /\ UNCHANGED <<reqs, inflight, lastResp, err, cversion, obj, wargs, clock,
                   started_at, deadline, attempt, wresult, tick, tick_cancel, glb,
                   nresp, seen, late_print>>

\* main -> get_object_content_glb: the GET of the content, up to its await.
FetchSend ==
    /\ pc = "waited"
    /\ reqs' = Append(reqs, Req("fetch", obj.id, obj.version))
    /\ inflight' = inflight + 1
    /\ pc' = "fetch_http"
    /\ UNCHANGED <<wpc, lastResp, err, cversion, obj, wargs, clock, started_at,
                   deadline, attempt, wresult, tick, tick_cancel, glb, nresp, seen,
                   late_print>>

\* get_object_content_glb resumes with the answer.
FetchRecv ==
    /\ pc = "fetch_http"
    /\ \E r \in FetchRaws :
         LET ret == _sync_http_bytes_with_content_type(r)
         IN  /\ lastResp' = r
             /\ err' = ret.err
             /\ glb' = IF ret.raised THEN NoContent ELSE Content(ret.resp.text, ret.ctype)
             /\ pc' = IF ret.raised THEN "failed" ELSE "fetched"
    /\ inflight' = inflight - 1
    /\ UNCHANGED <<wpc, reqs, cversion, obj, wargs, clock, started_at, deadline,
                   attempt, wresult, tick, tick_cancel, nresp, seen, late_print>>

\* main -> debug_add_object_to_rooms: the POST, up to its await.
DebugSend ==
    /\ pc = "fetched"
    /\ reqs' = Append(reqs, Req("register", obj.id, obj.version))
    /\ inflight' = inflight + 1
    /\ pc' = "register_http"
    /\ UNCHANGED <<wpc, lastResp, err, cversion, obj, wargs, clock, started_at,
                   deadline, attempt, wresult, tick, tick_cancel, glb, nresp, seen,
                   late_print>>

\* debug_add_object_to_rooms resumes with the answer; main ends.
DebugRecv ==
    /\ pc = "register_http"
    /\ \E r \in DebugRaws :
         LET e == debug_add_object_to_rooms(_sync_http_json(r))
         IN  /\ lastResp' = r
             /\ err' = e
             /\ pc' = IF e # NoErr THEN "failed" ELSE "done"
    /\ inflight' = inflight - 1
    /\ UNCHANGED <<wpc, reqs, cversion, obj, wargs, clock, started_at, deadline,
                   attempt, wresult, tick, tick_cancel, glb, nresp, seen, late_print>>

\* The steps of main's task, and those of the ticker task.
MainNext ==
    \/ CreateSend \/ CreateRecv
    \/ WaitEnter \/ WaitRecv \/ SleepDone \/ WaitExit
    \/ FetchSend \/ FetchRecv
    \/ DebugSend \/ DebugRecv
TickerNext == TickerPrint \/ TickerCancelled

Next == MainNext \/ TickerNext

Spec == Init /\ [][Next]_vars

\* The event loop runs every task that is ready, and (the claims' premise)
\* every HTTP call and sleep ends.
FairSpec == Spec /\ WF_vars(MainNext) /\ WF_vars(TickerCancelled)

\* ------------------------------------------------------------------ claims
\* lastResp is the answer to the latest wait call answered so far.
LastIsWait ==
    /\ nresp >= 1
    /\ \/ pc \in {"waited", "fetch_http"}
       \/ Len(reqs) > 0 /\ reqs[Len(reqs)].ep = "wait"

\* wait_until_version_final is over or in its finally block.
WaitLeaving == wpc \in {"await_tick", "exited"}

\* C1: when the first n wait answers (n >= 0) show the version's task as
\* processing and answer n+1 shows it as succeeded, the wait returns the
\* object state of answer n+1 and has issued exactly n+1 wait calls.
C1_ReturnsStateOfFinalPoll ==
    (/\ LastIsWait
     /\ seen \in {"none", "processing"}
     /\ Shows(lastResp, wargs.version, "succeeded"))
    => /\ WaitLeaving
       /\ wresult = Result("returned", State(lastResp.body.tasks))
       /\ WaitCalls = nresp

\* C1 witness: processing, processing, succeeded; the third state returned.
C1_Witness ==
    /\ pc = "waited" /\ nresp = 3 /\ WaitCalls = 3
    /\ seen = "processing"
    /\ Shows(lastResp, wargs.version, "succeeded")
    /\ wresult = Result("returned", State(lastResp.body.tasks))

\* C2: once wait_until_version_final has returned or raised, the ticker task
\* it started has been cancelled and has ended: it is not running and cannot
\* print, and it never printed after the wait was left.
C2_TickerStoppedOnExit ==
    /\ wpc # "idle" => tick # "none"
    /\ wpc = "exited" =>
          /\ tick = "done" /\ tick_cancel
          /\ ~late_print
          /\ ~ENABLED TickerPrint

\* C2 witness: the HTTP call raised, and the wait was left with the ticker
\* ended.
C2_Witness ==
    /\ wpc = "exited" /\ pc = "failed"
    /\ wresult.kind = "raised" /\ err.cls = "URLError"
    /\ tick = "done"

\* Every wait answer so far was 200/success without a task of the version.
AllAbsent ==
    nresp = 0 \/ (seen \in {"none", "absent"} /\ Absent(lastResp, wargs.version))

\* C3: with an overall timeout set, as long as every wait answer lacks the
\* version's task, the wait ends with TimeoutError: the sleep-and-retry path
\* leads back to the deadline check.
C3_AbsentTaskTimesOut ==
    [](pc = "wait" /\ deadline # NoTimeout
         => <>(~AllAbsent \/ (WaitLeaving /\ err.cls = "TimeoutError")))

\* C3 witness: two answers without the task, then TimeoutError past the
\* deadline.
C3_Witness ==
    /\ WaitLeaving /\ err.cls = "TimeoutError"
    /\ nresp >= 2 /\ AllAbsent /\ seen = "absent"
    /\ clock > deadline

\* The text a body gives as the server's message: the error field of a JSON
\* object, or the whole text of a body that is not JSON.
ServerMessage(b) == IF b.kind = "object" THEN b.error ELSE b.text

\* The wait answer lists the version's task as failed with error message x.
FailedWith(r, v, x) ==
    /\ Shows(r, v, "failed")
    /\ \A i \in DOMAIN r.body.tasks :
          r.body.tasks[i].version = v => r.body.tasks[i].error = x

\* C4: a wait answer showing the version's task as failed with error
\* message X ends the wait with the generation-failed error (a RuntimeError
\* in the code) whose message is exactly X, and no further wait call is made.
C4_FailedCarriesTaskError ==
    (LastIsWait /\ FailedWith(lastResp, wargs.version, "X"))
    => /\ WaitLeaving
       /\ wresult.kind = "raised"
       /\ err = Error("RuntimeError", Text("X"))
       /\ WaitCalls = nresp

\* C4 witness: the run has failed on a task reported failed with message X.
C4_Witness ==
    /\ pc = "failed" /\ LastIsWait
    /\ FailedWith(lastResp, wargs.version, "X")
    /\ err.msg = Text("X")

\* C5: a wait answer with status 404, at any poll and whatever its body,
\* ends the wait at once with the not-found error (a RuntimeError with the
\* server's message, else "Object not found"): no sleep, no further wait
\* call, whatever remains of the deadline.
C5_NotFoundFailsAtOnce ==
    (LastIsWait /\ lastResp.http = 404)
    => /\ WaitLeaving
       /\ wresult.kind = "raised"
       /\ err = Error("RuntimeError",
                      Text(Or(ServerMessage(lastResp.body), "Object not found")))
       /\ WaitCalls = nresp

\* C5 witness: a 404 at the second poll, before the deadline, with a body
\* that lists the version's task as processing.
C5_Witness ==
    /\ LastIsWait /\ lastResp.http = 404 /\ nresp = 2
    /\ lastResp.body.kind = "object" /\ lastResp.body.success
    /\ lastResp.body.tasks # <<>>
    /\ deadline # NoTimeout /\ clock < deadline
    /\ err = Error("RuntimeError", Text("Object not found"))
    /\ pc = "failed"

\* The creation answer is the latest answer received.
CreateAnswered ==
    Len(reqs) = 1 /\ reqs[1].ep = "create" /\ inflight = 0

\* C6 (as claimed): a 200/success creation answer without data.id, or with
\* a data.id that is not a string, fails with a type error, and no wait call
\* follows.
C6_BadIdIsTypeError ==
    (/\ CreateAnswered
     /\ lastResp.http = 200 /\ lastResp.body.kind = "object" /\ lastResp.body.success
     /\ (~lastResp.body.hasData \/ lastResp.body.idKind # "str"))
    => /\ pc = "failed"
       /\ err.cls = "TypeError"
       /\ WaitCalls = 0

Rank(ep) ==
    CASE ep = "create" -> 1 [] ep = "wait" -> 2 [] ep = "fetch" -> 3 [] ep = "register" -> 4
Issued(ep) == \E i \in DOMAIN reqs : reqs[i].ep = ep

\* The requests so far are in the order creation, wait calls, fetch,
\* registration, each step begun only after the one before succeeded, and
\* at most one request is in flight.
InOrder ==
    /\ inflight \in {0, 1}
    /\ \A i, j \in DOMAIN reqs :
          i < j => \/ Rank(reqs[i].ep) < Rank(reqs[j].ep)
                   \/ reqs[i].ep = "wait" /\ reqs[j].ep = "wait"
    /\ reqs # <<>> => reqs[1].ep = "create"
    /\ Issued("wait") => obj # NoObj
    /\ Issued("fetch") => wpc = "exited" /\ wresult.kind = "returned"
    /\ Issued("register") => glb # NoContent

\* A step had failed: an exception left it, or is pending in the finally
\* block of the wait.
Failing == pc = "failed" \/ wresult.kind = "raised"

\* C7: the run issues creation, wait calls, content fetch and registration
\* strictly in this order, a request only when none is in flight and the
\* step before has succeeded, and no request at all once a step has failed.
C7_StrictlySequential ==
    /\ []InOrder
    /\ [][Len(reqs') > Len(reqs) => Len(reqs') = Len(reqs) + 1 /\ inflight' = 1]_vars
    /\ [][Failing => reqs' = reqs /\ Failing']_vars

\* C7 witness: a whole run, with two wait calls.
C7_Witness ==
    /\ pc = "done"
    /\ Len(reqs) = 5
    /\ reqs[1].ep = "create" /\ reqs[2].ep = "wait" /\ reqs[3].ep = "wait"
    /\ reqs[4].ep = "fetch" /\ reqs[5].ep = "register"

\* The failure paths of the wait, told by what the server answered and by
\* the clock.
NotFoundPath == LastIsWait /\ lastResp.http = 404
RequestPath ==
    /\ LastIsWait
    /\ lastResp.http \notin {0, 404}
    /\ ~(lastResp.http \in 200 .. 299 /\ lastResp.body.kind = "nonjson")
    /\ (lastResp.http # 200 \/ ~lastResp.body.success)
FailedPath == LastIsWait /\ Shows(lastResp, wargs.version, "failed")
TimeoutPath ==
    /\ wresult.kind = "raised"
    /\ deadline # NoTimeout /\ clock > deadline
    /\ \/ nresp = 0
       \/ LastIsWait /\ Shown(lastResp, wargs.version) \in {"processing", "absent"}

\* The error kind the code raises on each path.
NotFoundKind ==
    wait_iteration(_sync_http_json(Raw(404, Envelope(FALSE, ""), "")), "v2").err.cls
RequestKind ==
    wait_iteration(_sync_http_json(Raw(500, Envelope(FALSE, ""), "")), "v2").err.cls
FailedKind ==
    wait_iteration(_sync_http_json(
        Raw(200, WithTasks(TRUE, "", <<Task("v2", "failed", "X")>>), "")), "v2").err.cls
TimeoutKind == timeout_error(0).cls

\* C8 (as claimed): the error kind alone tells which failure path the wait
\* took: an error of the kind of one path is raised on that path only.
C8_KindTellsPath ==
    (NotFoundPath \/ RequestPath \/ FailedPath \/ TimeoutPath)
    => /\ err.cls = NotFoundKind => NotFoundPath
       /\ err.cls = RequestKind => RequestPath
       /\ err.cls = FailedKind => FailedPath
       /\ err.cls = TimeoutKind => TimeoutPath

\* C8 (amended): 404, any other non-OK status or failure envelope, and a
\* failed task all raise RuntimeError; the exceeded deadline raises
\* TimeoutError, the one kind that tells its path.
C8_TwoErrorKinds ==
    /\ (NotFoundPath \/ RequestPath \/ FailedPath)
          => wresult.kind = "raised" /\ err.cls = "RuntimeError"
    /\ TimeoutPath => err.cls = "TimeoutError"
    /\ (WaitLeaving /\ err.cls = "TimeoutError")
          => ~(NotFoundPath \/ RequestPath \/ FailedPath)

\* C8 witness: the wait has failed on a 500 answer with a RuntimeError.
C8_Witness ==
    /\ pc = "failed" /\ RequestPath /\ lastResp.http = 500
    /\ err.cls = "RuntimeError"

\* The content fetch was answered with an HTTP error status.
FetchFailedHTTP ==
    /\ Len(reqs) > 0 /\ reqs[Len(reqs)].ep = "fetch" /\ inflight = 0
    /\ lastResp.http \in {404, 500}

\* C9 (as claimed): on an HTTP error answer the content fetch raises a
\* RuntimeError with the server's error message when the body is JSON with
\* a non-empty error field, and with the raw body text otherwise.
C9_FetchCarriesServerMessage ==
    FetchFailedHTTP
    => /\ pc = "failed"
       /\ err = Error("RuntimeError",
                      IF lastResp.body.kind = "object" /\ lastResp.body.error # ""
                      THEN Text(lastResp.body.error)
                      ELSE RawText(lastResp.body))

\* A call of a JSON endpoint (create, wait, registration) was answered with
\* a body that is not JSON.
NonJsonAnswer ==
    /\ lastResp.http # 0 /\ lastResp.body.kind = "nonjson"
    /\ \/ CreateAnswered
       \/ LastIsWait /\ pc \in {"wait", "failed"}
       \/ Len(reqs) > 0 /\ reqs[Len(reqs)].ep = "register" /\ inflight = 0

DecodeError(r) == Error("RuntimeError", Fmt("Non-JSON response", r.body.text, NoBody))

\* C10 (as claimed): a body that is not JSON ends the call with the decode
\* error whatever the HTTP status.
C10_NonJsonIsDecodeError ==
    NonJsonAnswer => Failing /\ err = DecodeError(lastResp)

\* C10 (amended): with a 2xx status a body that is not JSON ends the call
\* with the decode error; with an HTTP error status (404, 500) it is made
\* the failure envelope {success: false, error: <body text>} and the call
\* fails as an ordinary request failure carrying the body text (or the
\* call's fallback message when the body is empty), never the decode error.
C10_NonJsonDecodeErrorOn2xxOnly ==
    NonJsonAnswer
    => /\ Failing
       /\ ~IsHTTPError(lastResp.http) => err = DecodeError(lastResp)
       /\ IsHTTPError(lastResp.http) =>
             /\ err.cls = "RuntimeError"
             /\ err.msg.fmt # "Non-JSON response"
             /\ lastResp.body.text # "" => err.msg = Text(lastResp.body.text)
             /\ lastResp.body.text = "" =>
                   \/ err.msg = Text("Object not found")
                   \/ err.msg.body = Envelope(FALSE, "")

\* C10 witness: a wait call answered 200 with a body that is not JSON has
\* ended with the decode error.
C10_Witness ==
    /\ NonJsonAnswer /\ LastIsWait /\ lastResp.http = 200
    /\ pc = "failed" /\ err = DecodeError(lastResp)

\* The first task of version v a wait answer lists has status st.
FirstShows(r, v, st) ==
    /\ ListsTask(r, v)
    /\ \E i \in DOMAIN r.body.tasks :
          /\ r.body.tasks[i].version = v /\ r.body.tasks[i].status = st
          /\ \A j \in 1 .. (i - 1) : r.body.tasks[j].version # v

\* C11: the wait returns only on an answer with status 200 and success set
\* that lists the version's task as succeeded, and what it returns is the
\* data of that latest answer; it does not return on an answer showing the
\* task processing or failed, lacking it, or listing only another version.
C11_ReturnsOnlyOnSucceeded ==
    /\ wresult.kind = "returned" => nresp >= 1 /\ WaitCalls = nresp
    /\ (LastIsWait /\ wresult.kind = "returned") =>
          /\ FirstShows(lastResp, wargs.version, "succeeded")
          /\ wresult.state = State(lastResp.body.tasks)
          /\ ~Absent(lastResp, wargs.version)
          /\ ~Shows(lastResp, wargs.version, "processing")
          /\ ~Shows(lastResp, wargs.version, "failed")

\* C11 witness: returned on an answer that lists another version's task
\* first and this version's task as succeeded.
C11_Witness ==
    /\ pc = "waited" /\ wresult.kind = "returned"
    /\ Len(lastResp.body.tasks) = 2
    /\ lastResp.body.tasks[1].version # wargs.version
    /\ lastResp.body.tasks[2] = Task(wargs.version, "succeeded", "")

\* This step issues a wait request.
IssuesWait == WaitCalls' = WaitCalls + 1

\* This step begins a loop iteration (the first, one after an answer that
\* showed the task processing, or one after the sleep).
BeginsIteration == attempt' = attempt + 1 /\ pc' = "wait"

\* C12: with an overall timeout set, every loop iteration, also the one
\* after an absent-task sleep, first checks the deadline: past it, the
\* iteration raises TimeoutError and issues no wait call, so no wait request
\* is issued after the deadline has passed.
C12_DeadlineCheckedEachIteration ==
    /\ [][(IssuesWait /\ deadline' # NoTimeout) =>
            BeginsIteration /\ clock' <= deadline']_vars
    /\ [][(BeginsIteration /\ deadline' # NoTimeout /\ clock' > deadline') =>
            /\ reqs' = reqs
            /\ wpc' = "await_tick" /\ wresult'.kind = "raised"
            /\ err'.cls = "TimeoutError"]_vars
    /\ [][(wpc = "sleep" /\ wpc' # "sleep") => BeginsIteration]_vars

\* C12 witness: the iteration after one absent-task sleep found the deadline
\* passed and raised without a second wait call.
C12_Witness ==
    /\ wpc = "await_tick" /\ err.cls = "TimeoutError"
    /\ nresp = 1 /\ WaitCalls = 1 /\ attempt = 2
    /\ Absent(lastResp, wargs.version)
    /\ clock > deadline

\* Every wait answer so far showed the version's task as processing.
AllProcessing ==
    nresp = 0 \/ (seen \in {"none", "processing"}
                  /\ Shows(lastResp, wargs.version, "processing"))

\* C13: with an overall timeout set and every wait call and sleep ending,
\* the wait is left (returns or raises) whatever the server answers; as
\* long as every answer shows the task processing, it is left with
\* TimeoutError.
C13_WaitTerminates ==
    /\ [](pc = "wait" /\ deadline # NoTimeout => <>(wpc = "exited"))
    /\ [](pc = "wait" /\ deadline # NoTimeout
            => <>(~AllProcessing \/ (wpc = "exited" /\ err.cls = "TimeoutError")))

\* C13 witness: three answers showing processing, then the wait left with
\* TimeoutError.
C13_Witness ==
    /\ wpc = "exited" /\ pc = "failed" /\ err.cls = "TimeoutError"
    /\ nresp = 3 /\ AllProcessing /\ seen = "processing"

\* What the loop of wait_until_version_final works on.
loopState ==
    <<pc, wpc, reqs, inflight, lastResp, err, obj, wargs, clock, started_at,
      deadline, attempt, wresult, nresp>>

\* C14: inside the wait at most one wait request is in flight, wait call
\* k+1 is issued only once the answer to call k is in and inspected, and a
\* step of the ticker issues no request and leaves the loop's state alone.
C14_OneWaitInFlight ==
    /\ [](pc = "wait" =>
            /\ WaitCalls - nresp = inflight
            /\ inflight \in {0, 1}
            /\ inflight = 1 <=> wpc = "http")
    /\ [][IssuesWait => nresp' = WaitCalls /\ inflight' = 1]_vars
    /\ [][WaitCalls' # WaitCalls => IssuesWait]_vars
    /\ [][(tick' # tick /\ tick # "none") \/ late_print' # late_print
            => UNCHANGED loopState]_vars

\* C14 witness: the third wait call in flight, two answers in, the ticker
\* having run.
C14_Witness ==
    /\ pc = "wait" /\ wpc = "http"
    /\ WaitCalls = 3 /\ nresp = 2 /\ inflight = 1
    /\ tick = "sleeping"

\* C15: a wait answer with a non-OK status other than 404, or with status
\* 200 and a failure envelope, ends the wait on that very answer with the
\* request error (a RuntimeError with the server's message, else "Wait
\* failed: ..."): no retry, whatever remains of the deadline and whatever
\* tasks the body lists.
C15_RequestFailureEndsWait ==
    RequestPath
    => /\ WaitLeaving /\ wresult.kind = "raised"
       /\ WaitCalls = nresp
       /\ pc \in {"wait", "failed"}
       /\ err.cls = "RuntimeError"
       /\ ServerMessage(lastResp.body) # "" => err.msg = Text(ServerMessage(lastResp.body))
       /\ ServerMessage(lastResp.body) = "" => err.msg.fmt = "Wait failed"

\* C15 witness: the second answer, before the deadline, is 200 with success
\* unset and lists the version's task as succeeded; the run has failed.
C15_Witness ==
    /\ pc = "failed" /\ RequestPath /\ nresp = 2
    /\ lastResp.http = 200
    /\ lastResp.body.tasks = <<Task(wargs.version, "succeeded", "")>>
    /\ deadline # NoTimeout /\ clock < deadline
    /\ err.msg.fmt = "Wait failed"

\* The wait answer that came before the wait call this step issues.
AnswerBefore == IF nresp' > nresp THEN lastResp' ELSE lastResp

UnknownStatus(r, v) ==
    /\ ListsTask(r, v)
    /\ \A st \in {"processing", "succeeded", "failed"} : ~FirstShows(r, v, st)

\* C17: an answer listing the version's task with a status that is missing
\* or not one of the three is handled like an answer without the task: no
\* return and no error, the loop sleeps and polls again, and only the
\* deadline ends the wait while such answers go on.
C17_UnknownStatusLikeAbsent ==
    /\ [][(nresp' = nresp + 1 /\ UnknownStatus(lastResp', wargs.version))
            => /\ wpc' = "sleep"
               /\ UNCHANGED <<reqs, wresult, err, tick_cancel, attempt>>]_vars
    /\ []((LastIsWait /\ UnknownStatus(lastResp, wargs.version))
            => /\ pc \in {"wait", "failed"}
               /\ wresult.kind # "returned"
               /\ wresult.kind = "raised" =>
                     err.cls = "TimeoutError" /\ clock > deadline /\ deadline # NoTimeout)

\* C17 witness: a task without a status, then (after the sleep) one with
\* status "queued", and the wait left with TimeoutError.
C17_Witness ==
    /\ pc = "failed" /\ err.cls = "TimeoutError" /\ nresp = 2
    /\ seen = "other"
    /\ lastResp.body.tasks = <<Task(wargs.version, "queued", "")>>

\* The requests issued after the creation request.
LaterReqs == {k \in DOMAIN reqs : reqs[k].ep # "create"}

\* C18: the ObjectMetadata is the creation answer's id with the version
\* token of the creation request and never changes afterwards; every wait,
\* the content fetch and the registered URL carry that id and version, and
\* the wait inspects the task of that version.
C18_MetadataFixedForRun ==
    /\ [][obj # NoObj => obj' = obj]_vars
    /\ [][(obj = NoObj /\ obj' # NoObj)
            => /\ pc = "create_http" /\ pc' = "created"
               /\ obj' = ObjectMetadata(lastResp'.body.id, reqs[1].version)]_vars
    /\ [](\A k \in LaterReqs :
            /\ obj # NoObj
            /\ reqs[k].id = obj.id
            /\ reqs[k].version = obj.version
            /\ reqs[k].version = reqs[1].version)
    /\ [](wpc # "idle"
            => /\ wargs.task_id = obj.id
               /\ wargs.version = reqs[1].version
               /\ wresult.kind = "returned"
                     => \E i \in DOMAIN wresult.state.tasks :
                          /\ wresult.state.tasks[i].version = reqs[1].version
                          /\ wresult.state.tasks[i].status = "succeeded"
                          /\ \A j \in 1 .. (i - 1) :
                                wresult.state.tasks[j].version # reqs[1].version)

\* C18 witness: a finished run whose waits, fetch and registration all
\* carried the id of the creation answer.
C18_Witness ==
    /\ pc = "done" /\ obj.id = "T2"
    /\ Len(reqs) = 5
    /\ reqs[2].ep = "wait" /\ reqs[3].ep = "wait"
    /\ reqs[4] = Req("fetch", "T2", reqs[1].version)
    /\ reqs[5] = Req("register", "T2", reqs[1].version)
====
